---- MODULE Spec2Model ----
(***************************************************************************)
(* Version-history model of the Decentralized File Metadata Manager.       *)
(*                                                                         *)
(* The metadata store (MongoDB through Mongoose) is the sequence docs, one *)
(* element per stored FileMetadata document, the position being the _id.   *)
(* The content store (IPFS) is the set of payloads that were added.        *)
(* A handler is cut at its awaits: pending is the bag of handlers that     *)
(* wait for a store to answer, each with its local variables, so the steps *)
(* of different requests interleave exactly where the event loop can       *)
(* interleave them.  last is the response sent most recently.              *)
(*                                                                         *)
(* document.save() on a fetched document sends only the modified paths:    *)
(* an array push becomes a $push on the stored array, an assignment        *)
(* becomes a $set of that one field, and the update is matched on _id      *)
(* alone.                                                                  *)
(***************************************************************************)
EXTENDS Integers, Sequences, FiniteSets, Bags, TLC

\* ---------------------------------------------------------------- bounds
MaxReqs == 2
MaxFiles == 2
MaxVersions == 3
MaxClock == 3

\* ---------------------------------------------------------------- inputs
Payloads == {<<7>>, <<7, 8>>}
\* owners that create files, callers that claim ownership in deleteFile,
\* and the uploadedBy of appended versions
Owners == {"alice"}
Callers == {"alice", "bob"}
Uploaders == {"bob"}
FileIds == {"f1", "f2"}
NoFile == <<-1>>
NoOwner == ""
NoId == "-"

VARIABLES docs, ipfs, isConnected, initDone, pending, last

vars == <<docs, ipfs, isConnected, initDone, pending, last>>

\* ------------------------------------------------------- pure functions
\* crypto sha256 hex digest: injective on the payloads of the model, and a
\* value of another kind than the payload itself.
generateSHA256FromBuffer(buffer) == <<"sha256", buffer>>

\* result.cid.toString(): the content address of the added bytes.
cid(buffer) == <<"cid", buffer>>

\* a handler waiting at an await, with its parameters and locals
Request(op, pc, fileId, owner, file, idx, versions) ==
  [op |-> op, pc |-> pc, fileId |-> fileId, owner |-> owner, file |-> file,
   idx |-> idx, versions |-> versions]

\* res.status(status).json(...) of handler op: the fields that carry data,
\* and whether client.add had stored the payload before the answer.
Response(op, status, fileId, versionNumber, wrote) ==
  [op |-> op, status |-> status, fileId |-> fileId,
   versionNumber |-> versionNumber, wrote |-> wrote]

NoResponse == Response("none", 0, NoId, 0, FALSE)

VersionData(file, uploadedBy) ==
  [sha256Hash |-> generateSHA256FromBuffer(file), ipfsHash |-> cid(file),
   fileSize |-> Len(file), uploadedBy |-> uploadedBy]

\* fileMetadataSchema.methods.addVersion: the element pushed on the in-memory
\* versions array.
addVersion(versions, versionData) ==
  [versionNumber |-> Len(versions) + 1,
   sha256Hash |-> versionData.sha256Hash, ipfsHash |-> versionData.ipfsHash,
   fileSize |-> versionData.fileSize, uploadedBy |-> versionData.uploadedBy]

\* the duplicate test reading the IPFS address instead of the digest
existingVersion_byIpfsHash(versions, sha256Hash) ==
  IF \E i \in 1..Len(versions) : versions[i].ipfsHash = sha256Hash
  THEN CHOOSE i \in 1..Len(versions) : versions[i].ipfsHash = sha256Hash
  ELSE 0

\* versions.find(v => v.sha256Hash === sha256Hash): position of the first
\* match, 0 when there is none.
existingVersion(versions, sha256Hash) ==
  IF \E i \in 1..Len(versions) : versions[i].sha256Hash = sha256Hash
  THEN CHOOSE i \in 1..Len(versions) :
         /\ versions[i].sha256Hash = sha256Hash
         /\ \A j \in 1..(i - 1) : versions[j].sha256Hash # sha256Hash
  ELSE 0

\* the hash lookup querying 'versions.ipfsHash'
findByHash_byIpfsHash(hash) ==
  {i \in 1..Len(docs) :
     /\ docs[i].isActive
     /\ \E k \in 1..Len(docs[i].versions) : docs[i].versions[k].ipfsHash = hash}

\* the lookup that also finds deleted files
findByHash_anyState(hash) ==
  {i \in 1..Len(docs) :
     \E k \in 1..Len(docs[i].versions) : docs[i].versions[k].sha256Hash = hash}

\* the lookup that reads the first version alone
findByHash_firstVersionOnly(hash) ==
  {i \in 1..Len(docs) :
     /\ docs[i].isActive
     /\ Len(docs[i].versions) > 0
     /\ docs[i].versions[1].sha256Hash = hash}

\* FileMetadata.findByHash: the _ids matching
\* {'versions.sha256Hash': hash, isActive: true}.
findByHash(hash) ==
  {i \in 1..Len(docs) :
     /\ docs[i].isActive
     /\ \E k \in 1..Len(docs[i].versions) : docs[i].versions[k].sha256Hash = hash}

\* the lookup without the isActive filter
findActive_anyState(fileId) ==
  {i \in 1..Len(docs) : docs[i].fileId = fileId}

\* the lookup without the fileId condition
findActive_anyFile(fileId) ==
  {i \in 1..Len(docs) : docs[i].isActive}

\* FileMetadata.findOne({fileId, isActive: true})
findActive(fileId) ==
  {i \in 1..Len(docs) : docs[i].fileId = fileId /\ docs[i].isActive}

\* the lookup without the owner filter, and the one without the isActive filter
findOwned_anyOwner(fileId, owner) ==
  {i \in 1..Len(docs) : docs[i].fileId = fileId /\ docs[i].isActive}

findOwned_anyState(fileId, owner) ==
  {i \in 1..Len(docs) : docs[i].fileId = fileId /\ docs[i].owner = owner}

\* FileMetadata.findOne({fileId, owner, isActive: true})
findOwned(fileId, owner) ==
  {i \in 1..Len(docs) :
     docs[i].fileId = fileId /\ docs[i].owner = owner /\ docs[i].isActive}

\* an index that covers the active documents only
fileIdTaken_activeOnly(fileId) ==
  \E i \in 1..Len(docs) : docs[i].fileId = fileId /\ docs[i].isActive

\* unique index on fileId
fileIdTaken(fileId) == \E i \in 1..Len(docs) : docs[i].fileId = fileId

\* save() of a fetched document whose versions array was pushed on: the
\* pushed element is $push-ed on the stored array.
savePush(stored, local) == Append(stored, local[Len(local)])

Waiting(pc) == {q \in BagToSet(pending) : q.pc = pc}

\* the handler q goes on to its next await as q2
Continue(q, q2) == pending' = (pending (-) SetToBag({q})) (+) SetToBag({q2})

\* the handler q answers
Answer(q, response) ==
  /\ pending' = pending (-) SetToBag({q})
  /\ last' = response

CanAccept == BagCardinality(pending) < MaxReqs

RECURSIVE SumCopies(_)
SumCopies(S) ==
  IF S = {} THEN 0
  ELSE LET q == CHOOSE x \in S : TRUE
       IN CopiesIn(q, pending) + SumCopies(S \ {q})

\* uploads and appends in flight, to keep the store within the bounds
UploadsInFlight == SumCopies({q \in BagToSet(pending) : q.op = "upload"})
AppendsInFlight(i) ==
  SumCopies({q \in BagToSet(pending) : q.op = "append" /\ q.idx = i})

\* ------------------------------------------------------------------ Init
Init ==
  /\ docs = <<>>
  /\ ipfs = {}
  /\ isConnected = FALSE
  /\ initDone = FALSE
  /\ pending = EmptyBag
  /\ last = NoResponse

\* ------------------------------------------------- IPFSService.init
\* an initialisation that is run again while the client is not connected
initOk_retries ==
  /\ ~isConnected
  /\ initDone' = TRUE
  /\ isConnected' = TRUE
  /\ UNCHANGED <<docs, ipfs, pending, last>>

initOk ==
  /\ ~initDone
  /\ initDone' = TRUE
  /\ isConnected' = TRUE
  /\ UNCHANGED <<docs, ipfs, pending, last>>

initFails ==
  /\ ~initDone
  /\ initDone' = TRUE
  /\ isConnected' = FALSE
  /\ UNCHANGED <<docs, ipfs, pending, last>>

\* ------------------------------------------------- uploadFile (CreateFile)
\* Validation, digest and the resolution of findByHash; when the lookup
\* finds nothing ipfsService.uploadFile is called, which tests isConnected
\* before it awaits client.add.
uploadFile(file, owner) ==
  /\ CanAccept
  /\ UNCHANGED <<docs, ipfs, isConnected, initDone>>
  /\ IF file = NoFile \/ owner = NoOwner
     THEN /\ last' = Response("upload", 400, NoId, 0, FALSE)
          /\ UNCHANGED pending
     ELSE LET sha256Hash == generateSHA256FromBuffer(file)
              existingFile == findByHash(sha256Hash)
          IN IF existingFile # {}
             THEN /\ \E i \in existingFile :
                       last' = Response("upload", 409, docs[i].fileId, 0, FALSE)
                  /\ UNCHANGED pending
             ELSE IF ~isConnected
                  THEN /\ last' = Response("upload", 500, NoId, 0, FALSE)
                       /\ UNCHANGED pending
                  ELSE /\ Len(docs) + UploadsInFlight < MaxFiles
                       /\ pending' = pending (+) SetToBag(
                            {Request("upload", "ipfs", NoId, owner, file, 0, <<>>)})
                       /\ UNCHANGED last

\* result.size of client.add: the size of the node that holds the bytes, which
\* is their length or, with the wrapping of the node, more
Wrapping == 1
ReportedSizes(file) == {Len(file), Len(file) + Wrapping}

\* req.file.originalname, req.body.description and req.body.tags of the
\* multipart request that carries a payload, as sequences of characters; <<>>
\* is a field left out
originalname(file) == IF file = <<7>> THEN <<"A", "b">> ELSE <<"c">>
bodyDescription(file) == IF file = <<7>> THEN <<>> ELSE <<"a", "B">>
bodyTags(file) == IF file = <<7>> THEN <<"x", ",", " ", "y">> ELSE <<>>

\* String.prototype.split(','): the segments between the commas
RECURSIVE split(_)
split(string) ==
  IF \A k \in 1..Len(string) : string[k] # ","
  THEN <<string>>
  ELSE LET k == CHOOSE k \in 1..Len(string) :
                  /\ string[k] = ","
                  /\ \A j \in 1..(k - 1) : string[j] # ","
       IN <<SubSeq(string, 1, k - 1)>> \o split(SubSeq(string, k + 1, Len(string)))

\* String.prototype.trim(): without the blanks at either end
RECURSIVE trim(_)
trim(string) ==
  IF string # <<>> /\ Head(string) = " " THEN trim(Tail(string))
  ELSE IF string # <<>> /\ string[Len(string)] = " "
  THEN trim(SubSeq(string, 1, Len(string) - 1))
  ELSE string

\* tags.split(',').map(tag => tag.trim())
tagArray(tags) == [k \in 1..Len(split(tags)) |-> trim(split(tags)[k])]

\* createdAt: Date.now at the construction of a document, later than that of
\* every document constructed before it, stored or waiting for its save; the
\* model stops constructing documents after MaxClock
Now ==
  LET constructed ==
        {docs[i].createdAt : i \in 1..Len(docs)}
          \cup {q.createdAt : q \in {r \in BagToSet(pending) : r.op = "upload" /\ r.pc = "save"}}
  IN IF constructed = {} THEN 1
     ELSE 1 + (CHOOSE t \in constructed : \A u \in constructed : u <= t)

\* new FileMetadata({...}) of uploadFile, held by the handler while its save()
\* is awaited: idx 0 as it has no stored position yet
FileMetadata(fileId, owner, file, fileSize, createdAt) ==
  [op |-> "upload", pc |-> "save", fileId |-> fileId, owner |-> owner,
   file |-> file, idx |-> 0,
   originalFileName |-> originalname(file),
   description |-> bodyDescription(file),
   tags |-> IF bodyTags(file) # <<>> THEN tagArray(bodyTags(file)) ELSE <<>>,
   versions |-> <<[versionNumber |-> 1,
                   sha256Hash |-> generateSHA256FromBuffer(file),
                   ipfsHash |-> cid(file),
                   fileSize |-> fileSize,
                   uploadedBy |-> owner]>>,
   createdAt |-> createdAt]

\* the document as the collection holds it
Stored(q, versions) ==
  [fileId |-> q.fileId, originalFileName |-> q.originalFileName,
   owner |-> q.owner, description |-> q.description, tags |-> q.tags,
   isActive |-> TRUE, versions |-> versions, createdAt |-> q.createdAt]

\* the version recorded with the size the store reported
uploadFile_ipfs_reportedSize(q, fileId, size) ==
  /\ q \in Waiting("ipfs") /\ q.op = "upload"
  /\ size \in ReportedSizes(q.file)
  /\ Now <= MaxClock
  /\ ipfs' = ipfs \cup {q.file}
  /\ Continue(q, FileMetadata(fileId, q.owner, q.file, size, Now))
  /\ UNCHANGED <<docs, isConnected, initDone, last>>

\* client.add resolves with a cid and a size, of which ipfsResult.hash alone
\* is read; generateFileId; new FileMetadata(...); save() is sent.
uploadFile_ipfs(q, fileId, size) ==
  /\ q \in Waiting("ipfs") /\ q.op = "upload"
  /\ size \in ReportedSizes(q.file)
  /\ Now <= MaxClock
  /\ ipfs' = ipfs \cup {q.file}
  /\ Continue(q, FileMetadata(fileId, q.owner, q.file, Len(q.file), Now))
  /\ UNCHANGED <<docs, isConnected, initDone, last>>

\* the document stored without its versions array
uploadFile_save_noVersions(q) ==
  /\ q \in Waiting("save") /\ q.op = "upload"
  /\ ~fileIdTaken(q.fileId)
  /\ docs' = Append(docs, Stored(q, <<>>))
  /\ Answer(q, Response("upload", 201, q.fileId, 1, TRUE))
  /\ UNCHANGED <<ipfs, isConnected, initDone>>

\* the insert is accepted: fileId is not taken (unique index).
uploadFile_save(q) ==
  /\ q \in Waiting("save") /\ q.op = "upload"
  /\ ~fileIdTaken(q.fileId)
  /\ docs' = Append(docs, Stored(q, q.versions))
  /\ Answer(q, Response("upload", 201, q.fileId, 1, TRUE))
  /\ UNCHANGED <<ipfs, isConnected, initDone>>

\* --------------------------------------------- addNewVersion (AppendVersion)
\* Validation, the resolution of findOne({fileId, isActive: true}), digest and
\* the duplicate test on the fetched document; then ipfsService.uploadFile is
\* called as in uploadFile.
addNewVersion(fileId, file, uploadedBy) ==
  /\ CanAccept
  /\ UNCHANGED <<docs, ipfs, isConnected, initDone>>
  /\ IF file = NoFile \/ uploadedBy = NoOwner
     THEN /\ last' = Response("append", 400, NoId, 0, FALSE)
          /\ UNCHANGED pending
     ELSE IF findActive(fileId) = {}
     THEN /\ last' = Response("append", 404, NoId, 0, FALSE)
          /\ UNCHANGED pending
     ELSE \E i \in findActive(fileId) :
            LET versions == docs[i].versions
                found == existingVersion(versions, generateSHA256FromBuffer(file))
            IN IF found # 0
               THEN /\ last' = Response("append", 409, NoId,
                                        versions[found].versionNumber, FALSE)
                    /\ UNCHANGED pending
               ELSE IF ~isConnected
                    THEN /\ last' = Response("append", 500, NoId, 0, FALSE)
                         /\ UNCHANGED pending
                    ELSE /\ Len(versions) + AppendsInFlight(i) < MaxVersions
                         /\ pending' = pending (+) SetToBag(
                              {Request("append", "ipfs", fileId, uploadedBy, file,
                                       i, versions)})
                         /\ UNCHANGED last

\* the version recorded although nothing was added to the content store
addNewVersion_ipfs_notAdded(q, size) ==
  /\ q \in Waiting("ipfs") /\ q.op = "append"
  /\ size \in ReportedSizes(q.file)
  /\ Continue(q, Request("append", "save", q.fileId, q.owner, q.file, q.idx,
                         Append(q.versions,
                                addVersion(q.versions, VersionData(q.file, q.owner)))))
  /\ UNCHANGED <<docs, ipfs, isConnected, initDone, last>>

\* client.add resolves with a cid and a size, of which ipfsResult.hash alone
\* is read; fileMetadata.addVersion(...) on the fetched document; save() is
\* sent.
addNewVersion_ipfs(q, size) ==
  /\ q \in Waiting("ipfs") /\ q.op = "append"
  /\ size \in ReportedSizes(q.file)
  /\ ipfs' = ipfs \cup {q.file}
  /\ Continue(q, Request("append", "save", q.fileId, q.owner, q.file, q.idx,
                         Append(q.versions,
                                addVersion(q.versions, VersionData(q.file, q.owner)))))
  /\ UNCHANGED <<docs, isConnected, initDone, last>>

\* the save that also makes the uploader the owner
addNewVersion_save_takesOwnership(q) ==
  /\ q \in Waiting("save") /\ q.op = "append"
  /\ docs' = [docs EXCEPT ![q.idx].versions = savePush(@, q.versions),
                          ![q.idx].owner = q.owner]
  /\ Answer(q, Response("append", 201, q.fileId,
                        q.versions[Len(q.versions)].versionNumber, TRUE))
  /\ UNCHANGED <<ipfs, isConnected, initDone>>

\* the save that writes the whole fetched document back
addNewVersion_save_wholeDocument(q) ==
  /\ q \in Waiting("save") /\ q.op = "append"
  /\ docs' = [docs EXCEPT ![q.idx].versions = savePush(@, q.versions),
                          ![q.idx].isActive = TRUE]
  /\ Answer(q, Response("append", 201, q.fileId,
                        q.versions[Len(q.versions)].versionNumber, TRUE))
  /\ UNCHANGED <<ipfs, isConnected, initDone>>

\* save() of the fetched document resolves: the pushed version is stored; 201.
addNewVersion_save(q) ==
  /\ q \in Waiting("save") /\ q.op = "append"
  /\ docs' = [docs EXCEPT ![q.idx].versions = savePush(@, q.versions)]
  /\ Answer(q, Response("append", 201, q.fileId,
                        q.versions[Len(q.versions)].versionNumber, TRUE))
  /\ UNCHANGED <<ipfs, isConnected, initDone>>

\* ------------------------------------------------- deleteFile (SoftDelete)
\* the handler that looks the file up before it validates
deleteFile_lookupFirst(fileId, owner) ==
  /\ CanAccept
  /\ UNCHANGED <<docs, ipfs, isConnected, initDone>>
  /\ IF findOwned(fileId, owner) = {}
     THEN /\ last' = Response("delete", 404, NoId, 0, FALSE)
          /\ UNCHANGED pending
     ELSE \E i \in findOwned(fileId, owner) :
            /\ pending' = pending (+) SetToBag(
                 {Request("delete", "save", fileId, owner, NoFile, i, <<>>)})
            /\ UNCHANGED last

deleteFile(fileId, owner) ==
  /\ CanAccept
  /\ UNCHANGED <<docs, ipfs, isConnected, initDone>>
  /\ IF owner = NoOwner
     THEN /\ last' = Response("delete", 400, NoId, 0, FALSE)
          /\ UNCHANGED pending
     ELSE IF findOwned(fileId, owner) = {}
     THEN /\ last' = Response("delete", 404, NoId, 0, FALSE)
          /\ UNCHANGED pending
     ELSE \E i \in findOwned(fileId, owner) :
            /\ pending' = pending (+) SetToBag(
                 {Request("delete", "save", fileId, owner, NoFile, i, <<>>)})
            /\ UNCHANGED last

\* the delete that discards the version history
deleteFile_save_dropsVersions(q) ==
  /\ q \in Waiting("save") /\ q.op = "delete"
  /\ docs' = [docs EXCEPT ![q.idx].isActive = FALSE, ![q.idx].versions = <<>>]
  /\ Answer(q, Response("delete", 200, q.fileId, 0, FALSE))
  /\ UNCHANGED <<ipfs, isConnected, initDone>>

\* fileMetadata.isActive = false; save(): $set of isActive on that _id.
deleteFile_save(q) ==
  /\ q \in Waiting("save") /\ q.op = "delete"
  /\ docs' = [docs EXCEPT ![q.idx].isActive = FALSE]
  /\ Answer(q, Response("delete", 200, q.fileId, 0, FALSE))
  /\ UNCHANGED <<ipfs, isConnected, initDone>>

\* ------------------------------------------------- failures of the stores
\* client.add rejects: the handler's catch answers 500.
ipfsRejects(q) ==
  /\ q \in Waiting("ipfs")
  /\ Answer(q, Response(q.op, 500, NoId, 0, FALSE))
  /\ UNCHANGED <<docs, ipfs, isConnected, initDone>>

\* the catch that removes the added payload from IPFS again
saveRejects_compensates(q) ==
  /\ q \in Waiting("save")
  /\ ipfs' = ipfs \ {q.file}
  /\ Answer(q, Response(q.op, 500, NoId, 0, q.op # "delete"))
  /\ UNCHANGED <<docs, isConnected, initDone>>

\* save() rejects (duplicate key, validation, connection): catch answers 500.
saveRejects(q) ==
  /\ q \in Waiting("save")
  /\ Answer(q, Response(q.op, 500, NoId, 0, q.op # "delete"))
  /\ UNCHANGED <<docs, ipfs, isConnected, initDone>>

\* the first lookup of a handler rejects: catch answers 500.
lookupRejects(op) ==
  /\ CanAccept
  /\ last' = Response(op, 500, NoId, 0, FALSE)
  /\ UNCHANGED <<docs, ipfs, isConnected, initDone, pending>>

\* ------------------------------------------------------------ read paths
\* res.status(status).json(...) / res.send(...) of a read handler: status,
\* message, the fileId and versionNumber reported, the fileIds listed, the
\* bytes sent, the verdicts of verifyFileIntegrity and the totalCount.
Reply(op, status, message, fileId, versionNumber, files, body, isValid, sizesMatch, totalCount) ==
  [op |-> op, status |-> status, message |-> message, fileId |-> fileId,
   versionNumber |-> versionNumber, files |-> files, body |-> body,
   isValid |-> isValid, sizesMatch |-> sizesMatch, totalCount |-> totalCount]

Failure(op, status, message) ==
  Reply(op, status, message, NoId, 0, {}, NoFile, FALSE, FALSE, 0)

\* a listing handler waiting for its queries: files and totalCount are
\* NotYet until find and countDocuments have resolved
NotYet == -1

Listing(op, pc, criteria, files, totalCount) ==
  [op |-> op, pc |-> pc, criteria |-> criteria, files |-> files,
   totalCount |-> totalCount]

\* :versionIndex as the characters of the path segment; <<>> is the optional
\* segment left out
NaN == -1

DigitValue(c) ==
  CASE c = "0" -> 0 [] c = "1" -> 1 [] c = "2" -> 2 [] c = "3" -> 3
    [] c = "4" -> 4 [] c = "5" -> 5 [] c = "6" -> 6 [] c = "7" -> 7
    [] c = "8" -> 8 [] c = "9" -> 9 [] OTHER -> NaN

\* parseInt(string): the value of the longest prefix of decimal digits, NaN
\* when the string does not start with a digit.  Applied to a number it
\* returns the number.
RECURSIVE parseDigits(_, _)
parseDigits(string, value) ==
  IF string = <<>> \/ DigitValue(Head(string)) = NaN THEN value
  ELSE parseDigits(Tail(string), 10 * value + DigitValue(Head(string)))

parseInt(string) ==
  IF string = <<>> \/ DigitValue(Head(string)) = NaN THEN NaN
  ELSE parseDigits(string, 0)

\* the version taken by its position in the array
getVersion_byPosition(versions, versionNumber) ==
  IF versionNumber \in 1..Len(versions) THEN versionNumber ELSE 0

\* fileMetadataSchema.methods.getVersion: versions.find(v => v.versionNumber
\* === versionNumber), as the position of the first match, 0 for undefined.
\* NaN === n is false for every n.
getVersion(versions, versionNumber) ==
  IF versionNumber # NaN
       /\ \E k \in 1..Len(versions) : versions[k].versionNumber = versionNumber
  THEN CHOOSE k \in 1..Len(versions) :
         /\ versions[k].versionNumber = versionNumber
         /\ \A j \in 1..(k - 1) : versions[j].versionNumber # versionNumber
  ELSE 0

\* fileMetadataSchema.methods.getLatestVersion: the position of the last
\* element, 0 for null.
getLatestVersion(versions) == Len(versions)

\* the comparison that accepts any bytes
verifyHash_always(buffer, expectedHash) == TRUE

\* verifyHash: both digests are lower-case hex, which toLowerCase() leaves as
\* they are.
verifyHash(buffer, expectedHash) == generateSHA256FromBuffer(buffer) = expectedHash

\* what client.cat can deliver for an address: the bytes added under it, or,
\* from a faulty node or gateway, other bytes of the same or another length
Damaged == {<<8>>}
CatResults(ipfsHash) == {b \in ipfs : cid(b) = ipfsHash} \cup Damaged

\* getFileMetadata: findOne({fileId, isActive: true}) resolves and the handler
\* answers.
getFileMetadata(fileId) ==
  /\ CanAccept
  /\ UNCHANGED <<docs, ipfs, isConnected, initDone, pending>>
  /\ IF findActive(fileId) = {}
     THEN last' = Failure("metadata", 404, "File not found")
     ELSE \E i \in findActive(fileId) :
            last' = Reply("metadata", 200, "", docs[i].fileId,
                          Len(docs[i].versions), {docs[i].fileId}, NoFile,
                          FALSE, FALSE, 0)

\* downloadFile: the lookup resolves, the version is resolved on the fetched
\* document and ipfsService.downloadFile is called, which tests isConnected
\* before client.cat.
downloadFile(fileId, versionIndex) ==
  /\ CanAccept
  /\ UNCHANGED <<docs, ipfs, isConnected, initDone>>
  /\ IF findActive(fileId) = {}
     THEN /\ last' = Failure("download", 404, "File not found")
          /\ UNCHANGED pending
     ELSE \E i \in findActive(fileId) :
            LET versions == docs[i].versions
                version == IF versionIndex # <<>>
                           THEN getVersion(versions, parseInt(versionIndex))
                           ELSE getLatestVersion(versions)
            IN IF versionIndex # <<>> /\ version = 0
               THEN /\ last' = Failure("download", 404, "Version not found")
                    /\ UNCHANGED pending
               ELSE IF version = 0
               THEN /\ last' = Failure("download", 404, "No versions available")
                    /\ UNCHANGED pending
               ELSE IF ~isConnected
               THEN /\ last' = Failure("download", 500, "Failed to download file")
                    /\ UNCHANGED pending
               ELSE /\ pending' = pending (+) SetToBag(
                         {Request("download", "cat", fileId, NoOwner, NoFile, i,
                                  <<versions[version]>>)})
                    /\ UNCHANGED last

\* client.cat delivered fileBuffer: verifyHash decides between the bytes and
\* the 500 of a failed verification.
downloadFile_cat(q, fileBuffer) ==
  /\ q \in Waiting("cat") /\ q.op = "download"
  /\ fileBuffer \in CatResults(q.versions[1].ipfsHash)
  /\ IF verifyHash(fileBuffer, q.versions[1].sha256Hash)
     THEN Answer(q, Reply("download", 200, "", q.fileId,
                          q.versions[1].versionNumber, {q.fileId}, fileBuffer,
                          TRUE, TRUE, 0))
     ELSE Answer(q, Failure("download", 500, "File integrity verification failed"))
  /\ UNCHANGED <<docs, ipfs, isConnected, initDone>>

\* verifyFileIntegrity: as downloadFile, with a required :versionIndex and a
\* catch of its own around the download.
verifyFileIntegrity(fileId, versionIndex) ==
  /\ CanAccept
  /\ UNCHANGED <<docs, ipfs, isConnected, initDone>>
  /\ IF findActive(fileId) = {}
     THEN /\ last' = Failure("verify", 404, "File not found")
          /\ UNCHANGED pending
     ELSE \E i \in findActive(fileId) :
            LET versions == docs[i].versions
                version == getVersion(versions, parseInt(versionIndex))
            IN IF version = 0
               THEN /\ last' = Failure("verify", 404, "Version not found")
                    /\ UNCHANGED pending
               ELSE IF ~isConnected
               THEN /\ last' = Failure("verify", 500,
                                       "Failed to download file from IPFS for verification")
                    /\ UNCHANGED pending
               ELSE /\ pending' = pending (+) SetToBag(
                         {Request("verify", "cat", fileId, NoOwner, NoFile, i,
                                  <<versions[version]>>)})
                    /\ UNCHANGED last

\* the verdict that ignores the digest
verifyFileIntegrity_cat_sizeOnly(q, fileBuffer) ==
  /\ q \in Waiting("cat") /\ q.op = "verify"
  /\ fileBuffer \in CatResults(q.versions[1].ipfsHash)
  /\ Answer(q, Reply("verify", 200, "", q.fileId, q.versions[1].versionNumber,
                     {q.fileId}, NoFile,
                     Len(fileBuffer) = q.versions[1].fileSize,
                     Len(fileBuffer) = q.versions[1].fileSize, 0))
  /\ UNCHANGED <<docs, ipfs, isConnected, initDone>>

\* client.cat delivered fileBuffer: 200 with isValid and sizesMatch.
verifyFileIntegrity_cat(q, fileBuffer) ==
  /\ q \in Waiting("cat") /\ q.op = "verify"
  /\ fileBuffer \in CatResults(q.versions[1].ipfsHash)
  /\ Answer(q, Reply("verify", 200, "", q.fileId, q.versions[1].versionNumber,
                     {q.fileId}, NoFile,
                     verifyHash(fileBuffer, q.versions[1].sha256Hash),
                     Len(fileBuffer) = q.versions[1].fileSize, 0))
  /\ UNCHANGED <<docs, ipfs, isConnected, initDone>>

\* the failed download answered as an empty file
catRejects_emptyBody(q) ==
  /\ q \in Waiting("cat")
  /\ Answer(q, Reply(q.op, 200, "", q.fileId, q.versions[1].versionNumber,
                     {q.fileId}, <<>>, TRUE, TRUE, 0))
  /\ UNCHANGED <<docs, ipfs, isConnected, initDone>>

\* client.cat rejects: downloadFile's catch, or the inner catch of
\* verifyFileIntegrity.
catRejects(q) ==
  /\ q \in Waiting("cat")
  /\ Answer(q, Failure(q.op, 500,
                       IF q.op = "verify"
                       THEN "Failed to download file from IPFS for verification"
                       ELSE "Failed to download file"))
  /\ UNCHANGED <<docs, ipfs, isConnected, initDone>>

\* the first lookup of a read handler rejects: its outer catch.
readLookupRejects(op) ==
  /\ CanAccept
  /\ last' = Failure(op, 500,
                     CASE op = "metadata" -> "Failed to retrieve file metadata"
                       [] op = "download" -> "Failed to download file"
                       [] op = "verify" -> "Failed to verify file integrity"
                       [] op = "list" -> "Failed to retrieve files"
                       [] OTHER -> "Failed to search files")
  /\ UNCHANGED <<docs, ipfs, isConnected, initDone, pending>>

\* String.prototype.toLowerCase on one character of the model's alphabet
toLowerCase(c) == CASE c = "A" -> "a" [] c = "B" -> "b" [] c = "C" -> "c" [] OTHER -> c

\* { $regex: pattern, $options: 'i' } for a pattern of letters: the pattern
\* occurs in the string, whatever the case of either
regex(pattern, string) ==
  \E k \in 0..(Len(string) - Len(pattern)) :
    \A j \in 1..Len(pattern) :
      toLowerCase(string[k + j]) = toLowerCase(pattern[j])

\* req.query of a listing request: the criteria and the paging as they come
\* in the URL, <<>> and NoOwner for a parameter left out
Criteria(query, owner, tags, page, limit, sortOrder) ==
  [query |-> query, owner |-> owner, tags |-> tags, page |-> page,
   limit |-> limit, sortOrder |-> sortOrder]

\* const { page = 1, limit = 10 } = req.query; parseInt(page)
pageOf(criteria) == IF criteria.page = <<>> THEN 1 ELSE parseInt(criteria.page)
limitOf(criteria) == IF criteria.limit = <<>> THEN 10 ELSE parseInt(criteria.limit)

\* sortOrder === 'asc' ? 1 : -1
directionOf(criteria) == IF criteria.sortOrder = "asc" THEN 1 ELSE -1

\* conditions of which one is enough
matches_anyFilter(doc, criteria) ==
  \/ /\ criteria.query # <<>>
     /\ \/ regex(criteria.query, doc.originalFileName)
        \/ regex(criteria.query, doc.description)
  \/ criteria.owner # NoOwner /\ doc.owner = criteria.owner
  \/ /\ criteria.tags # <<>>
     /\ \E k \in 1..Len(doc.tags), l \in 1..Len(tagArray(criteria.tags)) :
          doc.tags[k] = tagArray(criteria.tags)[l]

\* searchConditions: $or of the two $regex on a query, owner equality on an
\* owner, $in of the tagArray on tags
matches(doc, criteria) ==
  /\ criteria.query # <<>> =>
       \/ regex(criteria.query, doc.originalFileName)
       \/ regex(criteria.query, doc.description)
  /\ criteria.owner # NoOwner => doc.owner = criteria.owner
  /\ criteria.tags # <<>> =>
       \E k \in 1..Len(doc.tags), l \in 1..Len(tagArray(criteria.tags)) :
         doc.tags[k] = tagArray(criteria.tags)[l]

\* the query without the isActive condition
matching_anyState(criteria) == {i \in 1..Len(docs) : matches(docs[i], criteria)}

\* the documents that satisfy { ...conditions, isActive: true }
matching(criteria) ==
  {i \in 1..Len(docs) : docs[i].isActive /\ matches(docs[i], criteria)}

\* .sort({ createdAt: direction })
RECURSIVE sort(_, _)
sort(found, direction) ==
  IF found = {} THEN <<>>
  ELSE LET i == CHOOSE i \in found :
                  \A j \in found :
                    IF direction = 1 THEN docs[i].createdAt <= docs[j].createdAt
                    ELSE docs[i].createdAt >= docs[j].createdAt
       IN <<i>> \o sort(found \ {i}, direction)

\* the page that starts at the first item
find_noSkip(criteria, direction, skip, limit) ==
  LET sorted == sort(matching(criteria), direction)
      to == IF limit < Len(sorted) THEN limit ELSE Len(sorted)
  IN [k \in 1..to |-> docs[sorted[k]].fileId]

\* find(conditions).sort(...).skip(skip).limit(limit): the fileIds of the
\* documents found, in order
find(criteria, direction, skip, limit) ==
  LET sorted == sort(matching(criteria), direction)
      to == IF skip + limit < Len(sorted) THEN skip + limit ELSE Len(sorted)
  IN [k \in 1..(IF to > skip THEN to - skip ELSE 0) |-> docs[sorted[skip + k]].fileId]

\* fileMetadataSchema.statics.findByOwner: skip = (page - 1) * limit
findByOwner(owner, options) ==
  find(Criteria(<<>>, owner, <<>>, <<>>, <<>>, ""), directionOf(options),
       (pageOf(options) - 1) * limitOf(options), limitOf(options))

\* countDocuments(conditions)
countDocuments(criteria) == Cardinality(matching(criteria))

\* Math.ceil(totalCount / limit) for a limit of at least 1
ceil(totalCount, limit) == (totalCount + limit - 1) \div limit

\* res.status(200).json({ data: { files, pagination } }) of a listing handler
Page(op, files, criteria, totalCount) ==
  [op |-> op, status |-> 200, message |-> "", files |-> files,
   currentPage |-> pageOf(criteria),
   totalPages |-> ceil(totalCount, limitOf(criteria)),
   totalCount |-> totalCount,
   hasNext |-> pageOf(criteria) < ceil(totalCount, limitOf(criteria)),
   hasPrev |-> pageOf(criteria) > 1]

\* getFilesByOwner: FileMetadata.findByOwner is sent.
getFilesByOwner(owner, page, limit, sortOrder) ==
  /\ CanAccept
  /\ pending' = pending (+) SetToBag(
       {Listing("list", "find", Criteria(<<>>, owner, <<>>, page, limit, sortOrder),
                <<>>, NotYet)})
  /\ UNCHANGED <<docs, ipfs, isConnected, initDone, last>>

\* find resolves; countDocuments is sent.
getFilesByOwner_find(q) ==
  /\ q \in Waiting("find") /\ q.op = "list"
  /\ Continue(q, Listing("list", "count", q.criteria,
                         findByOwner(q.criteria.owner, q.criteria), NotYet))
  /\ UNCHANGED <<docs, ipfs, isConnected, initDone, last>>

\* countDocuments resolves; 200.
getFilesByOwner_count(q) ==
  /\ q \in Waiting("count") /\ q.op = "list"
  /\ Answer(q, Page("list", q.files, q.criteria, countDocuments(q.criteria)))
  /\ UNCHANGED <<docs, ipfs, isConnected, initDone>>

\* the handler that queries whatever the criteria
searchFiles_alwaysQueries(query, owner, tags, page, limit) ==
  /\ CanAccept
  /\ UNCHANGED <<docs, ipfs, isConnected, initDone>>
  /\ pending' = pending (+) SetToBag(
       {Listing("search", "all", Criteria(query, owner, tags, page, limit, "desc"),
                <<>>, NotYet)})
  /\ UNCHANGED last

\* searchFiles: 400 without a criterion, else find and countDocuments are
\* sent together (Promise.all) and resolve in either order.
searchFiles(query, owner, tags, page, limit) ==
  /\ CanAccept
  /\ UNCHANGED <<docs, ipfs, isConnected, initDone>>
  /\ IF query = <<>> /\ owner = NoOwner /\ tags = <<>>
     THEN /\ last' = Failure("search", 400, "At least one search parameter is required")
          /\ UNCHANGED pending
     ELSE /\ pending' = pending (+) SetToBag(
               {Listing("search", "all",
                        Criteria(query, owner, tags, page, limit, "desc"),
                        <<>>, NotYet)})
          /\ UNCHANGED last

\* find of searchFiles resolves, before or after countDocuments.
searchFiles_find(q) ==
  /\ q \in Waiting("all") /\ q.op = "search"
  /\ UNCHANGED <<docs, ipfs, isConnected, initDone>>
  /\ LET files == find(q.criteria, -1,
                       (pageOf(q.criteria) - 1) * limitOf(q.criteria),
                       limitOf(q.criteria))
     IN IF q.totalCount = NotYet
        THEN /\ Continue(q, Listing("search", "count", q.criteria, files, NotYet))
             /\ UNCHANGED last
        ELSE Answer(q, Page("search", files, q.criteria, q.totalCount))

\* countDocuments of searchFiles resolves, before or after find.
searchFiles_count(q) ==
  /\ q \in Waiting("all") \cup Waiting("count") /\ q.op = "search"
  /\ q.totalCount = NotYet
  /\ UNCHANGED <<docs, ipfs, isConnected, initDone>>
  /\ IF q.pc = "all"
     THEN /\ Continue(q, Listing("search", "all", q.criteria, <<>>,
                                 countDocuments(q.criteria)))
          /\ UNCHANGED last
     ELSE Answer(q, Page("search", q.files, q.criteria, countDocuments(q.criteria)))

\* a query of a listing handler rejects: its catch.
listingRejects(q) ==
  /\ q \in Waiting("find") \cup Waiting("count") \cup Waiting("all")
  /\ Answer(q, Failure(q.op, 500,
                       IF q.op = "list" THEN "Failed to retrieve files"
                       ELSE "Failed to search files"))
  /\ UNCHANGED <<docs, ipfs, isConnected, initDone>>

\* the sizes a store can report for the payloads of the model
Sizes == 1..(2 + Wrapping)

\* the requests of the model: every valid combination, and one request for
\* each way a required field can be missing
UploadInputs == (Payloads \X Owners) \cup {<<NoFile, "alice">>, <<<<7>>, NoOwner>>}
AppendInputs ==
  (FileIds \X Payloads \X Uploaders)
    \cup {<<"f1", NoFile, "bob">>, <<"f1", <<7>>, NoOwner>>}
DeleteInputs == (FileIds \X Callers) \cup {<<"f1", NoOwner>>}

Next ==
  \/ initOk
  \/ initFails
  \/ \E in \in UploadInputs : uploadFile(in[1], in[2])
  \/ \E q \in BagToSet(pending), fileId \in FileIds, size \in Sizes :
       uploadFile_ipfs(q, fileId, size)
  \/ \E q \in BagToSet(pending) : uploadFile_save(q)
  \/ \E in \in AppendInputs : addNewVersion(in[1], in[2], in[3])
  \/ \E q \in BagToSet(pending), size \in Sizes : addNewVersion_ipfs(q, size)
  \/ \E q \in BagToSet(pending) : addNewVersion_save(q)
  \/ \E in \in DeleteInputs : deleteFile(in[1], in[2])
  \/ \E q \in BagToSet(pending) : deleteFile_save(q)
  \/ \E q \in BagToSet(pending) : ipfsRejects(q)
  \/ \E q \in BagToSet(pending) : saveRejects(q)
  \/ \E op \in {"upload", "append", "delete"} : lookupRejects(op)

Spec == Init /\ [][Next]_vars

\* Appends that race on one file: the file is created from <<7>> and the
\* appended payloads are new to it and differ from each other.
RacePayloads == {<<7, 8>>, <<9>>}

NextRace ==
  \/ initOk
  \/ initFails
  \/ uploadFile(<<7>>, "alice")
  \/ \E q \in BagToSet(pending), size \in Sizes : uploadFile_ipfs(q, "f1", size)
  \/ \E q \in BagToSet(pending) : uploadFile_save(q)
  \/ \E file \in RacePayloads, uploadedBy \in Uploaders :
       addNewVersion("f1", file, uploadedBy)
  \/ \E q \in BagToSet(pending), size \in Sizes : addNewVersion_ipfs(q, size)
  \/ \E q \in BagToSet(pending) : addNewVersion_save(q)
  \/ \E q \in BagToSet(pending) : ipfsRejects(q)
  \/ \E q \in BagToSet(pending) : saveRejects(q)

SpecRace == Init /\ [][NextRace]_vars

\* The read paths beside the uploads and deletes they observe.
VersionIndexes == {<<>>, <<"0">>, <<"2">>, <<"3">>, <<"x">>, <<"1", "x">>}

NextRead ==
  \/ initOk
  \/ initFails
  \/ \E file \in Payloads, owner \in Owners : uploadFile(file, owner)
  \/ \E q \in BagToSet(pending), fileId \in FileIds, size \in Sizes :
       uploadFile_ipfs(q, fileId, size)
  \/ \E q \in BagToSet(pending) : uploadFile_save(q)
  \/ \E fileId \in FileIds, owner \in Owners : deleteFile(fileId, owner)
  \/ \E q \in BagToSet(pending) : deleteFile_save(q)
  \/ \E fileId \in FileIds : getFileMetadata(fileId)
  \/ \E fileId \in FileIds, versionIndex \in VersionIndexes :
       downloadFile(fileId, versionIndex)
  \/ \E q \in BagToSet(pending), fileBuffer \in Payloads \cup Damaged :
       downloadFile_cat(q, fileBuffer)
  \/ \E fileId \in FileIds, versionIndex \in VersionIndexes \ {<<>>} :
       verifyFileIntegrity(fileId, versionIndex)
  \/ \E q \in BagToSet(pending), fileBuffer \in Payloads \cup Damaged :
       verifyFileIntegrity_cat(q, fileBuffer)
  \/ \E q \in BagToSet(pending) : catRejects(q)
  \/ \E owner \in Callers : getFilesByOwner(owner, <<>>, <<>>, "desc")
  \/ \E q \in BagToSet(pending) : getFilesByOwner_find(q)
  \/ \E q \in BagToSet(pending) : getFilesByOwner_count(q)
  \/ \E owner \in Callers \cup {NoOwner} : searchFiles(<<>>, owner, <<>>, <<>>, <<>>)
  \/ \E q \in BagToSet(pending) : searchFiles_find(q)
  \/ \E q \in BagToSet(pending) : searchFiles_count(q)
  \/ \E q \in BagToSet(pending) : listingRejects(q)
  \/ \E op \in {"metadata", "download", "verify", "list", "search"} :
       readLookupRejects(op)

SpecRead == Init /\ [][NextRead]_vars

\* Searches and listings beside the uploads and deletes they observe.  The
\* searches: no criterion at all; a query that a name matches in its own case
\* and a description in the other; an owner with pages of one file; tags, one
\* of which a file carries; a query and a tag with a page of two.
SearchInputs ==
  {Criteria(<<>>, NoOwner, <<>>, <<>>, <<>>, "desc"),
   Criteria(<<"b">>, NoOwner, <<>>, <<>>, <<>>, "desc"),
   Criteria(<<>>, "alice", <<>>, <<"1">>, <<"1">>, "desc"),
   Criteria(<<>>, "alice", <<>>, <<"2">>, <<"1">>, "desc"),
   Criteria(<<>>, NoOwner, <<"z", ",", " ", "y">>, <<>>, <<>>, "desc"),
   Criteria(<<"b">>, NoOwner, <<"y">>, <<"1">>, <<"2">>, "desc")}

ListInputs ==
  {Criteria(<<>>, "alice", <<>>, <<>>, <<>>, "desc"),
   Criteria(<<>>, "alice", <<>>, <<"1">>, <<"1">>, "desc"),
   Criteria(<<>>, "alice", <<>>, <<"2">>, <<"1">>, "asc")}

NextSearch ==
  \/ initOk
  \/ initFails
  \/ \E file \in Payloads, owner \in Owners : uploadFile(file, owner)
  \/ \E q \in BagToSet(pending), fileId \in FileIds, size \in Sizes :
       uploadFile_ipfs(q, fileId, size)
  \/ \E q \in BagToSet(pending) : uploadFile_save(q)
  \/ \E fileId \in FileIds, owner \in Owners : deleteFile(fileId, owner)
  \/ \E q \in BagToSet(pending) : deleteFile_save(q)
  \/ \E in \in ListInputs : getFilesByOwner(in.owner, in.page, in.limit, in.sortOrder)
  \/ \E q \in BagToSet(pending) : getFilesByOwner_find(q)
  \/ \E q \in BagToSet(pending) : getFilesByOwner_count(q)
  \/ \E in \in SearchInputs : searchFiles(in.query, in.owner, in.tags, in.page, in.limit)
  \/ \E q \in BagToSet(pending) : searchFiles_find(q)
  \/ \E q \in BagToSet(pending) : searchFiles_count(q)

SpecSearch == Init /\ [][NextSearch]_vars

\* Download and verification beside the uploads and appends that build
\* version histories.
NextFetch ==
  \/ initOk
  \/ initFails
  \/ \E file \in Payloads, owner \in Owners : uploadFile(file, owner)
  \/ \E q \in BagToSet(pending), fileId \in FileIds, size \in Sizes :
       uploadFile_ipfs(q, fileId, size)
  \/ \E q \in BagToSet(pending) : uploadFile_save(q)
  \/ \E fileId \in FileIds, file \in Payloads, uploadedBy \in Uploaders :
       addNewVersion(fileId, file, uploadedBy)
  \/ \E q \in BagToSet(pending), size \in Sizes : addNewVersion_ipfs(q, size)
  \/ \E q \in BagToSet(pending) : addNewVersion_save(q)
  \/ \E fileId \in FileIds, versionIndex \in VersionIndexes :
       downloadFile(fileId, versionIndex)
  \/ \E q \in BagToSet(pending), fileBuffer \in Payloads \cup Damaged :
       downloadFile_cat(q, fileBuffer)
  \/ \E fileId \in FileIds, versionIndex \in VersionIndexes \ {<<>>} :
       verifyFileIntegrity(fileId, versionIndex)
  \/ \E q \in BagToSet(pending), fileBuffer \in Payloads \cup Damaged :
       verifyFileIntegrity_cat(q, fileBuffer)
  \/ \E q \in BagToSet(pending) : catRejects(q)
  \/ \E op \in {"download", "verify"} : readLookupRejects(op)

SpecFetch == Init /\ [][NextFetch]_vars

\* The writes and the content-store pulls with every failure of a store: a
\* rejected lookup, add, save or cat, and a client that never connected.
NextFail ==
  \/ initOk
  \/ initFails
  \/ \E file \in Payloads, owner \in Owners : uploadFile(file, owner)
  \/ \E q \in BagToSet(pending), fileId \in FileIds, size \in Sizes :
       uploadFile_ipfs(q, fileId, size)
  \/ \E q \in BagToSet(pending) : uploadFile_save(q)
  \/ \E fileId \in FileIds, file \in Payloads, uploadedBy \in Uploaders :
       addNewVersion(fileId, file, uploadedBy)
  \/ \E q \in BagToSet(pending), size \in Sizes : addNewVersion_ipfs(q, size)
  \/ \E q \in BagToSet(pending) : addNewVersion_save(q)
  \/ \E fileId \in FileIds, owner \in Owners : deleteFile(fileId, owner)
  \/ \E q \in BagToSet(pending) : deleteFile_save(q)
  \/ \E fileId \in FileIds : downloadFile(fileId, <<>>)
  \/ \E q \in BagToSet(pending), fileBuffer \in Payloads \cup Damaged :
       downloadFile_cat(q, fileBuffer)
  \/ \E fileId \in FileIds : verifyFileIntegrity(fileId, <<"2">>)
  \/ \E q \in BagToSet(pending), fileBuffer \in Payloads \cup Damaged :
       verifyFileIntegrity_cat(q, fileBuffer)
  \/ \E q \in BagToSet(pending) : ipfsRejects(q)
  \/ \E q \in BagToSet(pending) : saveRejects(q)
  \/ \E q \in BagToSet(pending) : catRejects(q)
  \/ \E op \in {"upload", "append", "delete"} : lookupRejects(op)
  \/ \E op \in {"download", "verify"} : readLookupRejects(op)

SpecFail == Init /\ [][NextFail]_vars

\* The writes run one at a time: a request is accepted when no handler is
\* waiting.
NextSeq ==
  \/ initOk
  \/ initFails
  \/ pending = EmptyBag /\ \E in \in UploadInputs : uploadFile(in[1], in[2])
  \/ \E q \in BagToSet(pending), fileId \in FileIds, size \in Sizes :
       uploadFile_ipfs(q, fileId, size)
  \/ \E q \in BagToSet(pending) : uploadFile_save(q)
  \/ pending = EmptyBag /\ \E in \in AppendInputs : addNewVersion(in[1], in[2], in[3])
  \/ \E q \in BagToSet(pending), size \in Sizes : addNewVersion_ipfs(q, size)
  \/ \E q \in BagToSet(pending) : addNewVersion_save(q)
  \/ pending = EmptyBag /\ \E in \in DeleteInputs : deleteFile(in[1], in[2])
  \/ \E q \in BagToSet(pending) : deleteFile_save(q)
  \/ \E q \in BagToSet(pending) : ipfsRejects(q)
  \/ \E q \in BagToSet(pending) : saveRejects(q)

SpecSeq == Init /\ [][NextSeq]_vars

\* Version resolution as a function of the fetched document.  The stored
\* document is drawn from the version lists the schema admits (versions:
\* [fileVersionSchema] has no minimum length): none, one, two, and the numbers
\* 1,2,2 that interleaved appends leave.
StoredVersion(versionNumber, file) ==
  [versionNumber |-> versionNumber,
   sha256Hash |-> generateSHA256FromBuffer(file), ipfsHash |-> cid(file),
   fileSize |-> Len(file), uploadedBy |-> "alice"]

VersionLists ==
  {<<>>,
   <<StoredVersion(1, <<7>>)>>,
   <<StoredVersion(1, <<7>>), StoredVersion(2, <<7, 8>>)>>,
   <<StoredVersion(1, <<7>>), StoredVersion(2, <<7, 8>>), StoredVersion(2, <<7, 8>>)>>}

InitResolve ==
  /\ docs \in {<<Stored(FileMetadata("f1", "alice", <<7>>, 1, 1), versions)>> :
                 versions \in VersionLists}
  /\ ipfs = Payloads
  /\ isConnected \in BOOLEAN
  /\ initDone = TRUE
  /\ pending = EmptyBag
  /\ last = NoResponse

NextResolve ==
  \/ \E fileId \in FileIds, versionIndex \in VersionIndexes :
       downloadFile(fileId, versionIndex)
  \/ \E q \in BagToSet(pending), fileBuffer \in Payloads \cup Damaged :
       downloadFile_cat(q, fileBuffer)
  \/ \E fileId \in FileIds, versionIndex \in VersionIndexes \ {<<>>} :
       verifyFileIntegrity(fileId, versionIndex)
  \/ \E q \in BagToSet(pending), fileBuffer \in Payloads \cup Damaged :
       verifyFileIntegrity_cat(q, fileBuffer)
  \/ \E q \in BagToSet(pending) : catRejects(q)
  \/ \E op \in {"download", "verify"} : readLookupRejects(op)

SpecResolve == InitResolve /\ [][NextResolve]_vars

\* The server started beside stores that an earlier run has filled: the
\* collection holds a file with one or two versions and the content store
\* their bytes, while the client of this process is not yet connected.
InitOffline ==
  /\ docs \in {<<Stored(FileMetadata("f1", "alice", <<7>>, 1, 1),
                        <<StoredVersion(1, <<7>>)>>)>>,
               <<Stored(FileMetadata("f1", "alice", <<7>>, 1, 1),
                        <<StoredVersion(1, <<7>>), StoredVersion(2, <<9>>)>>)>>}
  /\ ipfs = {<<7>>, <<9>>}
  /\ isConnected = FALSE
  /\ initDone = FALSE
  /\ pending = EmptyBag
  /\ last = NoResponse

NextOffline ==
  \/ initOk
  \/ initFails
  \/ \E file \in Payloads, owner \in Owners : uploadFile(file, owner)
  \/ \E q \in BagToSet(pending), fileId \in FileIds, size \in Sizes :
       uploadFile_ipfs(q, fileId, size)
  \/ \E q \in BagToSet(pending) : uploadFile_save(q)
  \/ \E fileId \in FileIds, file \in Payloads, uploadedBy \in Uploaders :
       addNewVersion(fileId, file, uploadedBy)
  \/ \E q \in BagToSet(pending), size \in Sizes : addNewVersion_ipfs(q, size)
  \/ \E q \in BagToSet(pending) : addNewVersion_save(q)
  \/ \E fileId \in FileIds, versionIndex \in {<<>>, <<"2">>} :
       downloadFile(fileId, versionIndex)
  \/ \E q \in BagToSet(pending), fileBuffer \in Payloads \cup Damaged \cup {<<9>>} :
       downloadFile_cat(q, fileBuffer)
  \/ \E q \in BagToSet(pending) : catRejects(q)

SpecOffline == InitOffline /\ [][NextOffline]_vars

\* ================================================================ claims
versionNumbers(i) == {docs[i].versions[k].versionNumber : k \in 1..Len(docs[i].versions)}

distinctHashes(i) ==
  \A k, l \in 1..Len(docs[i].versions) :
    k # l => docs[i].versions[k].sha256Hash # docs[i].versions[l].sha256Hash

\* C1: in every reachable state the version numbers of each stored file are
\* exactly 1..len(versions), ascending in list order: the k-th version carries
\* the number k.
C1_VersionNumbersContiguous ==
  \A i \in 1..Len(docs) :
    \A k \in 1..Len(docs[i].versions) : docs[i].versions[k].versionNumber = k

\* C2: appends with pairwise distinct payloads, however their steps
\* interleave, leave a file whose versions carry distinct, contiguous numbers:
\* a file whose versions all differ in content has the numbers 1..len(versions)
\* with none used twice.
C2_ConcurrentAppendsDistinctNumbers ==
  \A i \in 1..Len(docs) :
    distinctHashes(i) =>
      /\ Cardinality(versionNumbers(i)) = Len(docs[i].versions)
      /\ versionNumbers(i) = 1..Len(docs[i].versions)

\* C6: once a file is inactive its versions list stays as it is: no step
\* changes the versions of a file that is inactive before the step.
C6_InactiveIsImmutable ==
  [][\A i \in 1..Len(docs) :
       ~docs[i].isActive => docs'[i].versions = docs[i].versions]_vars

\* C7: in every reachable state no two versions of one file have the same
\* contentHash.
C7_HashUniqueWithinFile == \A i \in 1..Len(docs) : distinctHashes(i)

\* the active files one of whose versions has the digest of file
activeHolders(file) ==
  {i \in 1..Len(docs) :
     /\ docs[i].isActive
     /\ \E k \in 1..Len(docs[i].versions) :
          docs[i].versions[k].sha256Hash = generateSHA256FromBuffer(file)}

\* C3: an uploadFile whose payload digest is in the version list of an active
\* file answers 409 with the fileId of such a file, stores no document, leaves
\* the metadata store and the content store as they were and has added
\* nothing to IPFS.
C3_DuplicateContentRejected ==
  [][\A file \in Payloads, owner \in Owners :
       (activeHolders(file) # {} /\ uploadFile(file, owner)) =>
         /\ last'.op = "upload" /\ last'.status = 409 /\ ~last'.wrote
         /\ \E i \in activeHolders(file) : last'.fileId = docs[i].fileId
         /\ UNCHANGED <<docs, ipfs, pending>>]_vars

W_C3_DuplicateContentAnswered ==
  /\ last.op = "upload" /\ last.status = 409 /\ ~last.wrote
  /\ Len(docs) = 1 /\ docs[1].isActive /\ docs[1].fileId = last.fileId

\* C4: an addNewVersion whose payload digest equals the contentHash of a
\* version of the addressed active file answers 409 with the versionNumber of
\* such a version; the stored files, the content store and the pending writes
\* are as before.
C4_DuplicateVersionRejected ==
  [][\A file \in Payloads, uploadedBy \in Uploaders :
       \A i \in 1..Len(docs) :
         LET same == {k \in 1..Len(docs[i].versions) :
                        docs[i].versions[k].sha256Hash = generateSHA256FromBuffer(file)}
         IN (/\ docs[i].isActive /\ same # {}
             /\ addNewVersion(docs[i].fileId, file, uploadedBy)) =>
              /\ last'.op = "append" /\ last'.status = 409 /\ ~last'.wrote
              /\ \E k \in same : last'.versionNumber = docs[i].versions[k].versionNumber
              /\ UNCHANGED <<docs, ipfs, pending>>]_vars

W_C4_DuplicateVersionAnswered ==
  /\ last.op = "append" /\ last.status = 409 /\ last.versionNumber = 2
  /\ \E i \in 1..Len(docs) : docs[i].isActive /\ Len(docs[i].versions) = 2

\* C5: an addNewVersion for a fileId that no stored file has, or whose file is
\* inactive, answers 404, adds nothing to IPFS and leaves every stored
\* document unchanged.
C5_AppendToMissingOrInactive ==
  [][\A fileId \in FileIds, file \in Payloads, uploadedBy \in Uploaders :
       (/\ ~\E i \in 1..Len(docs) : docs[i].fileId = fileId /\ docs[i].isActive
        /\ addNewVersion(fileId, file, uploadedBy)) =>
         /\ last' = Response("append", 404, NoId, 0, FALSE)
         /\ UNCHANGED <<docs, ipfs, pending>>]_vars

W_C5_AppendToInactiveAnswered ==
  /\ last.op = "append" /\ last.status = 404
  /\ \A f \in FileIds : \E i \in 1..Len(docs) : docs[i].fileId = f /\ ~docs[i].isActive

\* C8: in every reachable state every stored file has at least one version.
C8_AtLeastOneVersion == \A i \in 1..Len(docs) : Len(docs[i].versions) >= 1

W_C8_FilesStored ==
  /\ Len(docs) = 2
  /\ ~docs[1].isActive
  /\ Len(docs[2].versions) >= 2

\* C9: on an active file a deleteFile claiming another owner answers 404 and
\* leaves the file active; one claiming the owner is not refused, and its save
\* sets isActive to false and answers 200; on the file made inactive a
\* deleteFile claiming the owner answers 404 and changes nothing.
C9_SoftDeleteScenario ==
  [][/\ \A i \in 1..Len(docs), owner \in Callers :
          deleteFile(docs[i].fileId, owner) =>
            IF docs[i].isActive /\ docs[i].owner = owner
            THEN /\ last' = last /\ docs' = docs
                 /\ \E q \in BagToSet(pending') :
                      /\ q.op = "delete" /\ q.idx = i
                      /\ CopiesIn(q, pending') = CopiesIn(q, pending) + 1
            ELSE /\ last'.op = "delete" /\ last'.status = 404
                 /\ docs' = docs /\ pending' = pending
     /\ \A q \in BagToSet(pending) :
          deleteFile_save(q) =>
            /\ docs[q.idx].owner = q.owner
            /\ docs' = [docs EXCEPT ![q.idx].isActive = FALSE]
            /\ last'.op = "delete" /\ last'.status = 200]_vars

W_C9_DeletedThenNotFound ==
  /\ last.op = "delete" /\ last.status = 404
  /\ Len(docs) = 1 /\ docs[1].owner = "alice" /\ ~docs[1].isActive

\* C10: deleteFile gives one and the same answer, 404 with no data, and
\* changes nothing, whether no file has the fileId, the file belongs to
\* another owner, or the file is already inactive.
NotFoundAnswer == [op |-> "delete", status |-> 404, fileId |-> NoId,
                   versionNumber |-> 0, wrote |-> FALSE]

C10_NotFoundIndistinguishable ==
  [][\A fileId \in FileIds, owner \in Callers :
       LET missing == \A i \in 1..Len(docs) : docs[i].fileId # fileId
           foreign == \E i \in 1..Len(docs) :
                        docs[i].fileId = fileId /\ docs[i].owner # owner
           inactive == \E i \in 1..Len(docs) :
                         docs[i].fileId = fileId /\ ~docs[i].isActive
       IN ((missing \/ foreign \/ inactive) /\ deleteFile(fileId, owner)) =>
            /\ last' = NotFoundAnswer
            /\ UNCHANGED <<docs, ipfs, pending>>]_vars

W_C10_NotFoundWithForeignAndInactive ==
  /\ last = NotFoundAnswer
  /\ Len(docs) = 2 /\ ~docs[1].isActive /\ docs[2].isActive

\* the fileIds of the stored files that are inactive
inactiveIds == {docs[i].fileId : i \in {j \in 1..Len(docs) : ~docs[j].isActive}}

\* C11: a deleteFile that succeeds changes isActive of its file and nothing
\* else of any stored document; and every read whose query is answered while
\* a file is inactive leaves that file out: getFileMetadata, downloadFile and
\* verifyFileIntegrity answer 404 "File not found" and fetch nothing, and the
\* find of getFilesByOwner and of searchFiles yields no inactive file.
C11_DeletedFileExcludedFromReads ==
  [][/\ \A q \in BagToSet(pending) :
          (q.op = "delete" /\ deleteFile_save(q)) =>
            /\ last'.status = 200
            /\ Len(docs') = Len(docs)
            /\ \A i \in 1..Len(docs) :
                 /\ docs'[i].versions = docs[i].versions
                 /\ docs'[i].fileId = docs[i].fileId
                 /\ docs'[i].owner = docs[i].owner
                 /\ docs'[i].isActive = (docs[i].isActive /\ i # q.idx)
     /\ \A fileId \in inactiveIds :
          /\ getFileMetadata(fileId) => last' = Failure("metadata", 404, "File not found")
          /\ \A versionIndex \in VersionIndexes :
               /\ downloadFile(fileId, versionIndex) =>
                    /\ last' = Failure("download", 404, "File not found")
                    /\ pending' = pending
               /\ (versionIndex # <<>> /\ verifyFileIntegrity(fileId, versionIndex)) =>
                    /\ last' = Failure("verify", 404, "File not found")
                    /\ pending' = pending
     /\ \A q \in BagToSet(pending) :
          (q.op \in {"list", "search"} /\
             (getFilesByOwner_find(q) \/ searchFiles_find(q))) =>
            /\ \A r \in BagToSet(pending') :
                 CopiesIn(r, pending') > CopiesIn(r, pending) =>
                   \A k \in 1..Len(r.files) : r.files[k] \notin inactiveIds
            /\ (last' # last) =>
                 \A k \in 1..Len(last'.files) : last'.files[k] \notin inactiveIds]_vars

W_C11_ListingWithoutDeletedFile ==
  /\ last.op \in {"list", "search"} /\ last.status = 200
  /\ Len(docs) = 2 /\ ~docs[1].isActive /\ docs[2].isActive
  /\ docs[1].owner = "alice" /\ docs[2].owner = "alice"
  /\ last.files = <<docs[2].fileId>>

\* C12: for every stored file with N = len(versions) >= 1, getLatestVersion
\* (the last element) and getVersion(N) (the first element numbered N) are the
\* same element of the list.
C12_LatestIsVersionN ==
  \A i \in 1..Len(docs) :
    Len(docs[i].versions) >= 1 =>
      getLatestVersion(docs[i].versions)
        = getVersion(docs[i].versions, Len(docs[i].versions))

\* C13: on an active file, a versionIndex whose parseInt is NaN or a number
\* that no version of the file carries (0, a number above the version count,
\* a non-numeric string) makes downloadFile and verifyFileIntegrity answer 404
\* "Version not found", and a download of the latest version of a file
\* without versions answers 404 "No versions available"; in each case no
\* IPFS fetch is started.
C13_VersionNotFound ==
  [][\A i \in 1..Len(docs) :
       docs[i].isActive =>
         /\ \A versionIndex \in VersionIndexes \ {<<>>} :
              (\A k \in 1..Len(docs[i].versions) :
                 docs[i].versions[k].versionNumber # parseInt(versionIndex)) =>
                /\ downloadFile(docs[i].fileId, versionIndex) =>
                     /\ last' = Failure("download", 404, "Version not found")
                     /\ pending' = pending
                /\ verifyFileIntegrity(docs[i].fileId, versionIndex) =>
                     /\ last' = Failure("verify", 404, "Version not found")
                     /\ pending' = pending
         /\ (Len(docs[i].versions) = 0 /\ downloadFile(docs[i].fileId, <<>>)) =>
              /\ last' = Failure("download", 404, "No versions available")
              /\ pending' = pending]_vars

W_C13_NoVersionsAnswered ==
  /\ last = Failure("download", 404, "No versions available")
  /\ docs[1].versions = <<>>

\* the answer of verifyFileIntegrity to a failed IPFS fetch
ContentUnavailable ==
  Failure("verify", 500, "Failed to download file from IPFS for verification")

\* C14: when the fetch delivers bytes, verifyFileIntegrity answers 200 with
\* isValid saying whether their digest is the stored sha256Hash and sizesMatch
\* whether their length is the stored fileSize, a mismatch included; when the
\* fetch fails it answers the 500 of its inner catch, which no other outcome
\* of the handler produces: a rejected lookup answers another 500, and with
\* IPFS connected the request step answers 404 or starts the fetch.
C14_MismatchIsResultFetchFailureIsError ==
  [][/\ \A q \in BagToSet(pending) :
          (q.op = "verify" /\ q.pc = "cat") =>
            /\ \A fileBuffer \in Payloads \cup Damaged :
                 verifyFileIntegrity_cat(q, fileBuffer) =>
                   /\ last'.op = "verify" /\ last'.status = 200
                   /\ last'.isValid =
                        (generateSHA256FromBuffer(fileBuffer) = q.versions[1].sha256Hash)
                   /\ last'.sizesMatch = (Len(fileBuffer) = q.versions[1].fileSize)
                   /\ last' # ContentUnavailable
            /\ catRejects(q) => last' = ContentUnavailable
     /\ readLookupRejects("verify") => last' # ContentUnavailable
     /\ \A fileId \in FileIds, versionIndex \in VersionIndexes \ {<<>>} :
          (isConnected /\ verifyFileIntegrity(fileId, versionIndex)) =>
            \/ last' = last /\ pending' # pending
            \/ last'.op = "verify" /\ last'.status = 404]_vars

W_C14_MismatchReported ==
  /\ last.op = "verify" /\ last.status = 200
  /\ ~last.isValid /\ ~last.sizesMatch
  /\ \E i \in 1..Len(docs) : docs[i].fileId = last.fileId /\ docs[i].isActive

\* C15: when the fetch delivers the bytes that were added under the address
\* of a version 1, which uploadFile recorded, verifyFileIntegrity answers 200
\* with isValid and sizesMatch both true.
C15_UploadThenVerifyMatches ==
  [][\A q \in BagToSet(pending) :
       (q.op = "verify" /\ q.pc = "cat" /\ q.versions[1].versionNumber = 1) =>
         \A fileBuffer \in ipfs :
           (/\ cid(fileBuffer) = q.versions[1].ipfsHash
            /\ verifyFileIntegrity_cat(q, fileBuffer)) =>
             /\ last'.op = "verify" /\ last'.status = 200
             /\ last'.fileId = q.fileId /\ last'.versionNumber = 1
             /\ last'.isValid /\ last'.sizesMatch]_vars

W_C15_UploadVerified ==
  /\ last.op = "verify" /\ last.status = 200 /\ last.versionNumber = 1
  /\ last.isValid /\ last.sizesMatch
  /\ \E i \in 1..Len(docs) :
       docs[i].fileId = last.fileId /\ docs[i].versions[1].fileSize = 2

\* the greatest versionNumber among the versions of the stored file i
maxVersionNumber(i) ==
  CHOOSE n \in versionNumbers(i) : \A m \in versionNumbers(i) : m <= n

\* C16: an addNewVersion that succeeds adds exactly one version to the stored
\* file, numbered one above the greatest versionNumber stored before, and
\* reports that number.
C16_NextNumberIsMaxPlusOne ==
  [][\A q \in BagToSet(pending) :
       (q.op = "append" /\ q.pc = "save" /\ addNewVersion_save(q)) =>
         LET old == docs[q.idx].versions
             new == docs'[q.idx].versions
         IN /\ Len(new) = Len(old) + 1
            /\ SubSeq(new, 1, Len(old)) = old
            /\ new[Len(new)].versionNumber = maxVersionNumber(q.idx) + 1
            /\ last'.versionNumber = maxVersionNumber(q.idx) + 1]_vars

\* C17: every step keeps each stored file and leaves its versions list as it
\* was or longer with the old list as its beginning: no version is removed,
\* moved or changed, by an append, a delete or any interleaving of them.
C17_VersionsAppendOnly ==
  [][/\ Len(docs') >= Len(docs)
     /\ \A i \in 1..Len(docs) :
          /\ Len(docs'[i].versions) >= Len(docs[i].versions)
          /\ SubSeq(docs'[i].versions, 1, Len(docs[i].versions)) = docs[i].versions]_vars

W_C17_AppendedAndDeleted ==
  \E i \in 1..Len(docs) : Len(docs[i].versions) = 3 /\ ~docs[i].isActive

\* C18: the stored documents change only in a step in which a save() is
\* accepted; an uploadFile or addNewVersion whose client.add or save() rejects
\* answers 500 and leaves the stored documents and the content store as they
\* were, and after a rejected save() the payload added before is still in the
\* content store.
C18_PersistIsCommitPoint ==
  [][/\ docs' # docs =>
          \E q \in BagToSet(pending) :
            /\ q.pc = "save"
            /\ uploadFile_save(q) \/ addNewVersion_save(q) \/ deleteFile_save(q)
     /\ \A q \in BagToSet(pending) :
          (q.op \in {"upload", "append"}) =>
            /\ (q.pc = "ipfs" /\ ipfsRejects(q)) =>
                 /\ docs' = docs /\ ipfs' = ipfs
                 /\ last'.op = q.op /\ last'.status = 500
                 /\ CopiesIn(q, pending') = CopiesIn(q, pending) - 1
            /\ (q.pc = "save" /\ saveRejects(q)) =>
                 /\ docs' = docs /\ ipfs' = ipfs /\ q.file \in ipfs'
                 /\ last'.op = q.op /\ last'.status = 500
                 /\ CopiesIn(q, pending') = CopiesIn(q, pending) - 1]_vars

W_C18_PersistFailedBlobKept ==
  /\ last.op = "upload" /\ last.status = 500 /\ last.wrote
  /\ docs = <<>> /\ ipfs = {<<7, 8>>} /\ pending = EmptyBag

\* C19: an uploadFile whose generated fileId is the fileId of a stored file
\* is not failed by that one collision: when its save() is rejected, the
\* handler goes on with a regenerated fileId.  (generateFileId is called once
\* per request, so every handler of the model is at its first attempt.)
C19_IdCollisionRetried ==
  [][\A q \in BagToSet(pending) :
       (/\ q.op = "upload" /\ q.pc = "save"
        /\ \E i \in 1..Len(docs) : docs[i].fileId = q.fileId
        /\ saveRejects(q)) =>
         \E r \in BagToSet(pending') :
           /\ r.op = "upload" /\ r.pc = "save"
           /\ r.owner = q.owner /\ r.file = q.file /\ r.fileId # q.fileId
           /\ CopiesIn(r, pending') > CopiesIn(r, pending)]_vars

\* C20: when client.add reports a size other than the length of the payload
\* that was added, uploadFile and addNewVersion fail: the handler answers an
\* error, sends no save() and stores nothing.
C20_SizeMismatchRejected ==
  [][\A q \in BagToSet(pending), size \in Sizes :
       (q.pc = "ipfs" /\ size # Len(q.file)) =>
         ((\/ \E fileId \in FileIds : uploadFile_ipfs(q, fileId, size)
           \/ addNewVersion_ipfs(q, size)) =>
            /\ last'.op = q.op /\ last'.status = 500
            /\ BagCardinality(pending') = BagCardinality(pending) - 1
            /\ docs' = docs)]_vars

\* C21: the save of an addNewVersion or deleteFile changes the stored
\* document of its own file and no other, and what such a request does is
\* decided by its own file: it answers 404 exactly when no active file has
\* the fileId, and a handler it starts works on the document with that
\* fileId and, for an append, on the versions stored in it.
C21_FilesAreIndependent ==
  [][/\ \A q \in BagToSet(pending) :
          (/\ q.op \in {"append", "delete"} /\ q.pc = "save"
           /\ addNewVersion_save(q) \/ deleteFile_save(q)) =>
            /\ Len(docs') = Len(docs)
            /\ \A j \in 1..Len(docs) : j # q.idx => docs'[j] = docs[j]
     /\ \A fileId \in FileIds :
          LET own == {i \in 1..Len(docs) : docs[i].fileId = fileId /\ docs[i].isActive}
              started(op) == {r \in BagToSet(pending') :
                               r.op = op /\ CopiesIn(r, pending') > CopiesIn(r, pending)}
          IN /\ \A file \in Payloads, uploadedBy \in Uploaders :
                  addNewVersion(fileId, file, uploadedBy) =>
                    /\ docs' = docs
                    /\ (last' = Response("append", 404, NoId, 0, FALSE)
                          /\ pending' = pending) <=> (own = {})
                    /\ \A r \in started("append") :
                         r.idx \in own /\ r.versions = docs[r.idx].versions
             /\ \A owner \in Owners :
                  deleteFile(fileId, owner) =>
                    /\ docs' = docs
                    /\ \A r \in started("delete") : r.idx \in own]_vars

W_C21_AppendOnOneDeleteOnOther ==
  /\ Len(docs) = 2
  /\ docs[1].isActive /\ Len(docs[1].versions) = 2
  /\ ~docs[2].isActive /\ Len(docs[2].versions) = 1

\* C22: in every reachable state the stored files, active or inactive, have
\* pairwise different fileIds; an uploadFile whose fileId is the fileId of a
\* stored file cannot have its save() accepted, and the rejection leaves
\* every stored document as it was.
C22_FileIdUnique ==
  /\ [](\A i, j \in 1..Len(docs) : i # j => docs[i].fileId # docs[j].fileId)
  /\ [][\A q \in BagToSet(pending) :
          (/\ q.op = "upload" /\ q.pc = "save"
           /\ \E i \in 1..Len(docs) : docs[i].fileId = q.fileId) =>
            /\ ~uploadFile_save(q)
            /\ saveRejects(q) => docs' = docs]_vars

W_C22_CollisionRejected ==
  /\ last.op = "upload" /\ last.status = 500 /\ last.wrote
  /\ Len(docs) = 1 /\ ~docs[1].isActive
  /\ ipfs = {<<7>>, <<7, 8>>} /\ pending = EmptyBag

\* C23: no step changes the fileId or the owner of a stored file, an append
\* by an uploader other than the owner and a delete included.
C23_FileIdAndOwnerImmutable ==
  [][\A i \in 1..Len(docs) :
       docs'[i].fileId = docs[i].fileId /\ docs'[i].owner = docs[i].owner]_vars

W_C23_AppendedByOtherThenDeleted ==
  /\ Len(docs) = 1 /\ docs[1].owner = "alice" /\ ~docs[1].isActive
  /\ Len(docs[1].versions) = 2 /\ docs[1].versions[2].uploadedBy = "bob"

\* C24: searchFiles with query, owner and tags all empty or absent answers
\* 400 "At least one search parameter is required" and sends no query to the
\* store; with at least one of them populated it sends its queries, and no
\* later step of a search answers 400.
C24_SearchNeedsACriterion ==
  [][/\ \A in \in SearchInputs :
          searchFiles(in.query, in.owner, in.tags, in.page, in.limit) =>
            IF in.query = <<>> /\ in.owner = NoOwner /\ in.tags = <<>>
            THEN /\ last' = Failure("search", 400, "At least one search parameter is required")
                 /\ pending' = pending
                 /\ docs' = docs
            ELSE /\ last' = last
                 /\ \E r \in BagToSet(pending') :
                      /\ r.op = "search" /\ r.pc = "all" /\ r.criteria = in
                      /\ CopiesIn(r, pending') = CopiesIn(r, pending) + 1
     /\ \A q \in BagToSet(pending) :
          (q.op = "search" /\ (searchFiles_find(q) \/ searchFiles_count(q))) =>
            /\ q.criteria.query # <<>> \/ q.criteria.owner # NoOwner \/ q.criteria.tags # <<>>
            /\ last' # last => last'.status = 200]_vars

W_C24_SearchWithoutCriterionRefused ==
  /\ last = Failure("search", 400, "At least one search parameter is required")
  /\ Len(docs) = 2 /\ docs[1].isActive /\ docs[2].isActive
  /\ pending = EmptyBag

\* the tags a search asks for, and the letters of a text in lower case
tagsAsked(tags) ==
  CASE tags = <<"z", ",", " ", "y">> -> {<<"z">>, <<"y">>}
    [] tags = <<"y">> -> {<<"y">>}
    [] OTHER -> {}

lowered(text) == [k \in 1..Len(text) |-> IF text[k] = "A" THEN "a" ELSE IF text[k] = "B" THEN "b" ELSE text[k]]

occursIn(text, string) ==
  \E k \in 0..(Len(string) - Len(text)) :
    SubSeq(lowered(string), k + 1, k + Len(text)) = lowered(text)

\* the active files that satisfy every populated filter
wanted(criteria) ==
  {i \in 1..Len(docs) :
     /\ docs[i].isActive
     /\ criteria.owner # NoOwner => docs[i].owner = criteria.owner
     /\ criteria.query # <<>> =>
          \/ occursIn(criteria.query, docs[i].originalFileName)
          \/ occursIn(criteria.query, docs[i].description)
     /\ criteria.tags # <<>> =>
          {docs[i].tags[k] : k \in 1..Len(docs[i].tags)} \cap tagsAsked(criteria.tags) # {}}

listed(files) == {files[k] : k \in 1..Len(files)}

\* C25: when the find of a search resolves, the files it delivers are active
\* files that satisfy every populated filter (owner equality, the text in the
\* filename or the description whatever the case, one of the tags), each
\* once, and all of them when the page holds them all; when its
\* countDocuments resolves, totalCount is the number of such files.
C25_SearchReturnsMatchingActiveFiles ==
  [][\A q \in BagToSet(pending) :
       /\ (q.op = "search" /\ searchFiles_find(q)) =>
            \E files \in {<<>>} \cup UNION {[1..n -> FileIds] : n \in 1..MaxFiles} :
              /\ IF q.totalCount = NotYet
                 THEN \E r \in BagToSet(pending') :
                        /\ CopiesIn(r, pending') > CopiesIn(r, pending)
                        /\ r.files = files
                 ELSE last'.op = "search" /\ last'.status = 200 /\ last'.files = files
              /\ listed(files) \subseteq {docs[i].fileId : i \in wanted(q.criteria)}
              /\ Len(files) = Cardinality(listed(files))
              /\ (pageOf(q.criteria) = 1 /\ limitOf(q.criteria) >= Cardinality(wanted(q.criteria))) =>
                   listed(files) = {docs[i].fileId : i \in wanted(q.criteria)}
       /\ (q.op = "search" /\ searchFiles_count(q)) =>
            IF q.pc = "all"
            THEN \E r \in BagToSet(pending') :
                   /\ CopiesIn(r, pending') > CopiesIn(r, pending)
                   /\ r.totalCount = Cardinality(wanted(q.criteria))
            ELSE /\ last'.op = "search" /\ last'.status = 200
                 /\ last'.totalCount = Cardinality(wanted(q.criteria))]_vars

W_C25_FilterExcludesAnActiveFile ==
  /\ last.op = "search" /\ last.status = 200
  /\ Len(docs) = 2 /\ docs[1].isActive /\ docs[2].isActive
  /\ Len(last.files) = 1 /\ last.totalCount = 1
  /\ \E i \in 1..2 : docs[i].fileId = last.files[1] /\ docs[i].tags = <<<<"x">>, <<"y">>>>

\* the wanted files in the order of the listing: createdAt descending, or
\* ascending when the listing asks for it
inOrder(criteria) ==
  LET n == Cardinality(wanted(criteria))
  IN CHOOSE order \in [1..n -> wanted(criteria)] :
       \A k, l \in 1..n :
         k < l => IF criteria.sortOrder = "asc"
                  THEN docs[order[k]].createdAt < docs[order[l]].createdAt
                  ELSE docs[order[k]].createdAt > docs[order[l]].createdAt

\* the items at the 0-based offsets (page-1)*pageSize .. page*pageSize-1
pageItems(criteria) ==
  LET order == inOrder(criteria)
      first == (pageOf(criteria) - 1) * limitOf(criteria)
      offsets == {o \in first..(pageOf(criteria) * limitOf(criteria) - 1) : o < Len(order)}
  IN [k \in 1..Cardinality(offsets) |-> docs[order[first + k]].fileId]

\* C26: for page >= 1 and pageSize >= 1, the find of a listing or a search
\* delivers the items at the 0-based offsets (page-1)*pageSize ..
\* page*pageSize-1 of the sorted result; the answer has hasNext exactly when
\* page < ceil(totalCount/pageSize), which is when items lie beyond the page,
\* and hasPrev exactly when page > 1.
C26_PagesOfTheSortedResult ==
  [][\A q \in BagToSet(pending) :
       /\ (q.op \in {"list", "search"} /\ (getFilesByOwner_find(q) \/ searchFiles_find(q))) =>
            /\ pageOf(q.criteria) >= 1 /\ limitOf(q.criteria) >= 1
            /\ IF q.op = "search" /\ q.totalCount # NotYet
               THEN last'.op = "search" /\ last'.files = pageItems(q.criteria)
               ELSE \E r \in BagToSet(pending') :
                      /\ CopiesIn(r, pending') > CopiesIn(r, pending)
                      /\ r.files = pageItems(q.criteria)
       /\ (/\ q.op \in {"list", "search"}
           /\ getFilesByOwner_count(q) \/ searchFiles_find(q) \/ searchFiles_count(q)
           /\ BagCardinality(pending') < BagCardinality(pending)) =>
            /\ last'.op = q.op /\ last'.status = 200
            /\ last'.currentPage = pageOf(q.criteria)
            /\ last'.hasNext =
                 (\E n \in 1..(MaxFiles + 1) :
                    /\ n * limitOf(q.criteria) >= last'.totalCount
                    /\ \A m \in 0..(n - 1) : m * limitOf(q.criteria) < last'.totalCount
                    /\ pageOf(q.criteria) < n)
            /\ last'.hasNext = (pageOf(q.criteria) * limitOf(q.criteria) < last'.totalCount)
            /\ last'.hasPrev = (pageOf(q.criteria) > 1)]_vars

W_C26_SecondPageOfTwo ==
  /\ last.op \in {"list", "search"} /\ last.status = 200
  /\ Len(docs) = 2 /\ docs[1].isActive /\ docs[2].isActive
  /\ last.currentPage = 2 /\ last.totalCount = 2 /\ last.totalPages = 2
  /\ Len(last.files) = 1 /\ last.hasPrev /\ ~last.hasNext

\* C27: uploadFile without a file or an owner, addNewVersion without a file
\* or an uploadedBy, and deleteFile without an owner answer 400 whatever the
\* stores hold, and start nothing: no lookup or write is pending, no payload
\* is added and no document changes.
C27_MissingFieldsRefusedFirst ==
  [][/\ \A in \in UploadInputs :
          ((in[1] = NoFile \/ in[2] = NoOwner) /\ uploadFile(in[1], in[2])) =>
            /\ last' = Response("upload", 400, NoId, 0, FALSE)
            /\ docs' = docs /\ ipfs' = ipfs /\ pending' = pending
     /\ \A in \in AppendInputs :
          ((in[2] = NoFile \/ in[3] = NoOwner) /\ addNewVersion(in[1], in[2], in[3])) =>
            /\ last' = Response("append", 400, NoId, 0, FALSE)
            /\ docs' = docs /\ ipfs' = ipfs /\ pending' = pending
     /\ \A in \in DeleteInputs :
          (in[2] = NoOwner /\ deleteFile(in[1], in[2])) =>
            /\ last' = Response("delete", 400, NoId, 0, FALSE)
            /\ docs' = docs /\ ipfs' = ipfs /\ pending' = pending]_vars

W_C27_AppendWithoutFieldsRefused ==
  /\ last = Response("append", 400, NoId, 0, FALSE)
  /\ Len(docs) = 1 /\ docs[1].fileId = "f1" /\ docs[1].isActive
  /\ Len(docs[1].versions) = 1
  /\ pending = EmptyBag

\* C28: a failure of the content store or of the metadata store during
\* uploadFile, addNewVersion, downloadFile, verifyFileIntegrity or deleteFile
\* is answered with status 500 by that operation and changes no document;
\* while the content store is not connected no request that needs it is
\* answered with a success.
C28_StoreFailuresSurface ==
  [][/\ \A q \in BagToSet(pending) :
          (ipfsRejects(q) \/ saveRejects(q) \/ catRejects(q)) =>
            /\ last'.op = q.op /\ last'.status = 500
            /\ docs' = docs
            /\ BagCardinality(pending') = BagCardinality(pending) - 1
     /\ \A op \in {"upload", "append", "delete"} :
          lookupRejects(op) => last'.op = op /\ last'.status = 500 /\ docs' = docs
     /\ \A op \in {"download", "verify"} :
          readLookupRejects(op) => last'.op = op /\ last'.status = 500 /\ docs' = docs
     /\ (initDone /\ ~isConnected) =>
          /\ \A q \in BagToSet(pending) : q.op = "delete"
          /\ (last' # last /\ last'.op \in {"upload", "append", "download", "verify"}) =>
               last'.status \in {404, 409, 500}]_vars

W_C28_FailedCatAnswered500 ==
  /\ last = Failure("verify", 500, "Failed to download file from IPFS for verification")
  /\ isConnected
  /\ Len(docs) = 1 /\ docs[1].isActive /\ Len(docs[1].versions) = 2
  /\ pending = EmptyBag

\* C29: of two uploadFile calls with the same payload whose steps interleave
\* at most one succeeds: an upload that passed its findByHash test is not
\* stored once an active file created from the same bytes exists (such a file
\* was created after the test, by an upload that ran beside this one).
C29_IdenticalUploadsNeverBothSucceed ==
  [][\A q \in BagToSet(pending) :
       (/\ q.op = "upload" /\ q.pc = "save"
        /\ \E i \in 1..Len(docs) :
             /\ docs[i].isActive
             /\ docs[i].versions[1].sha256Hash = generateSHA256FromBuffer(q.file)) =>
         ~uploadFile_save(q)]_vars

hashes(i) == {docs[i].versions[k].sha256Hash : k \in 1..Len(docs[i].versions)}

\* C30 as stated: with the writes run one at a time, no sha256Hash is in the
\* version lists of two different active files.
C30_NoHashInTwoActiveFiles ==
  \A i, j \in 1..Len(docs) :
    (i # j /\ docs[i].isActive /\ docs[j].isActive) => hashes(i) \cap hashes(j) = {}

\* C30: with the writes run one at a time, a file is created only from bytes
\* whose sha256Hash no active file holds, an append stores only a
\* sha256Hash its own file does not hold, and so the hashes within one file
\* are distinct; an append is stored whatever the other files hold.
C30_HashUniqueAtCreationAndPerFile ==
  /\ [](\A i \in 1..Len(docs) : distinctHashes(i))
  /\ [][\A q \in BagToSet(pending) :
          /\ (q.op = "upload" /\ uploadFile_save(q)) =>
               \A i \in 1..Len(docs) :
                 docs[i].isActive => generateSHA256FromBuffer(q.file) \notin hashes(i)
          /\ (q.op = "append" /\ addNewVersion_save(q)) =>
               /\ generateSHA256FromBuffer(q.file) \notin hashes(q.idx)
               /\ hashes(q.idx)' = hashes(q.idx) \cup {generateSHA256FromBuffer(q.file)}]_vars

W_C30_AppendSharesHashWithOtherFile ==
  /\ pending = EmptyBag
  /\ last.op = "append" /\ last.status = 201
  /\ Len(docs) = 2 /\ docs[1].isActive /\ docs[2].isActive
  /\ hashes(1) \cap hashes(2) # {}
  /\ distinctHashes(1) /\ distinctHashes(2)

\* the files, active or not, that hold the digest of a payload
holders(file) == {i \in 1..Len(docs) : generateSHA256FromBuffer(file) \in hashes(i)}

\* C31: when the only files that hold the digest of a payload are deleted
\* ones, uploadFile does not answer 409 but goes on to the content store, and
\* its save stores a new active file with version 1 alone under a fileId no
\* document has, leaving every stored document, the deleted ones included,
\* as it was.
C31_DeletedFilesDoNotBlockUpload ==
  [][/\ \A file \in Payloads, owner \in Owners :
          (/\ holders(file) # {}
           /\ \A i \in holders(file) : ~docs[i].isActive
           /\ isConnected
           /\ uploadFile(file, owner)) =>
            /\ last' = last
            /\ docs' = docs
            /\ \E r \in BagToSet(pending') :
                 /\ r.op = "upload" /\ r.pc = "ipfs" /\ r.file = file
                 /\ CopiesIn(r, pending') = CopiesIn(r, pending) + 1
     /\ \A q \in BagToSet(pending) :
          (/\ q.op = "upload"
           /\ holders(q.file) # {}
           /\ \A i \in holders(q.file) : ~docs[i].isActive
           /\ uploadFile_save(q)) =>
            /\ last' = Response("upload", 201, q.fileId, 1, TRUE)
            /\ Len(docs') = Len(docs) + 1
            /\ \A i \in 1..Len(docs) : docs'[i] = docs[i] /\ docs[i].fileId # q.fileId
            /\ docs'[Len(docs')].fileId = q.fileId
            /\ docs'[Len(docs')].isActive
            /\ Len(docs'[Len(docs')].versions) = 1
            /\ docs'[Len(docs')].versions[1].versionNumber = 1
            /\ docs'[Len(docs')].versions[1].sha256Hash = generateSHA256FromBuffer(q.file)]_vars

W_C31_UploadedAgainAfterDelete ==
  /\ last = Response("upload", 201, "f2", 1, TRUE)
  /\ Len(docs) = 2
  /\ docs[1].fileId = "f1" /\ ~docs[1].isActive /\ Len(docs[1].versions) = 1
  /\ docs[2].fileId = "f2" /\ docs[2].isActive
  /\ docs[1].versions[1].sha256Hash = docs[2].versions[1].sha256Hash
  /\ pending = EmptyBag

\* C32: for every version of every stored file, deleted ones included, the
\* content store holds bytes under the version's ipfsHash whose digest is the
\* version's sha256Hash and whose length is its fileSize.
C32_EveryVersionBackedByContent ==
  \A i \in 1..Len(docs) :
    \A k \in 1..Len(docs[i].versions) :
      \E buffer \in ipfs :
        /\ cid(buffer) = docs[i].versions[k].ipfsHash
        /\ generateSHA256FromBuffer(buffer) = docs[i].versions[k].sha256Hash
        /\ Len(buffer) = docs[i].versions[k].fileSize

W_C32_VersionsOfDeletedAndActiveFiles ==
  /\ Len(docs) = 2
  /\ ~docs[1].isActive /\ Len(docs[1].versions) = 2
  /\ docs[1].versions[1].fileSize = 1 /\ docs[1].versions[2].fileSize = 2
  /\ docs[2].isActive /\ Len(docs[2].versions) = 1
  /\ pending = EmptyBag

\* C33: deleteFile answers 200 at most once for a fileId: the save of a
\* deleteFile whose file another deleteFile has made inactive in the meantime
\* does not answer 200.
C33_DeleteSucceedsOnce ==
  [][\A q \in BagToSet(pending) :
       (q.op = "delete" /\ q.pc = "save" /\ ~docs[q.idx].isActive) =>
         ~deleteFile_save(q)]_vars

\* C34: a file that is not active stays so: no step sets isActive back to
\* true or removes the document, the save of an addNewVersion that fetched
\* the file while it was active included.
C34_DeleteIsIrreversible ==
  [][/\ Len(docs') >= Len(docs)
     /\ \A i \in 1..Len(docs) : ~docs[i].isActive => ~docs'[i].isActive]_vars

W_C34_AppendSavedAfterDelete ==
  /\ last.op = "append" /\ last.status = 201
  /\ Len(docs) = 1 /\ ~docs[1].isActive /\ Len(docs[1].versions) = 2
  /\ pending = EmptyBag

\* C35: downloadFile sends the bytes client.cat delivered only when their
\* digest is the sha256Hash of the resolved version; when it is not, it
\* answers 500 "File integrity verification failed" and sends no bytes.  Every
\* download answered 200 carries bytes whose digest a version of that file
\* with that number holds.
C35_DownloadOnlyVerifiedBytes ==
  /\ [](last.op = "download" =>
          IF last.status = 200
          THEN \E i \in 1..Len(docs) :
                 /\ docs[i].fileId = last.fileId
                 /\ \E k \in 1..Len(docs[i].versions) :
                      /\ docs[i].versions[k].versionNumber = last.versionNumber
                      /\ docs[i].versions[k].sha256Hash = generateSHA256FromBuffer(last.body)
          ELSE last.body = NoFile)
  /\ [][\A q \in BagToSet(pending), fileBuffer \in Payloads \cup Damaged :
          (q.op = "download" /\ downloadFile_cat(q, fileBuffer)) =>
            IF generateSHA256FromBuffer(fileBuffer) = q.versions[1].sha256Hash
            THEN /\ last'.status = 200 /\ last'.body = fileBuffer
                 /\ last'.versionNumber = q.versions[1].versionNumber
            ELSE last' = Failure("download", 500, "File integrity verification failed")]_vars

W_C35_DamagedBytesNotSent ==
  /\ last = Failure("download", 500, "File integrity verification failed")
  /\ Len(docs) = 1 /\ docs[1].isActive /\ Len(docs[1].versions) = 2
  /\ pending = EmptyBag

\* C36: isConnected is false from the construction of the service on and
\* becomes true in one way only, by the initialisation whose connection test
\* succeeded; after an initialisation, failed or not, it does not change.
\* While it is false no handler waits for the content store, and an
\* uploadFile, addNewVersion or downloadFile that reaches the content store is
\* answered 500 with no document or content changed.
C36_NotConnectedUntilInitSucceeds ==
  /\ [](/\ isConnected => initDone
        /\ ~isConnected => pending = EmptyBag)
  /\ [][/\ initDone => isConnected' = isConnected
        /\ (~isConnected /\ isConnected') => (initDone' /\ docs' = docs /\ last' = last)
        /\ ~isConnected =>
             /\ docs' = docs /\ ipfs' = ipfs /\ pending' = pending
             /\ \A file \in Payloads, owner \in Owners :
                  (activeHolders(file) = {} /\ uploadFile(file, owner)) =>
                    last' = Response("upload", 500, NoId, 0, FALSE)
             /\ \A fileId \in FileIds, file \in Payloads, uploadedBy \in Uploaders :
                  (/\ \E i \in 1..Len(docs) :
                        /\ docs[i].fileId = fileId /\ docs[i].isActive
                        /\ generateSHA256FromBuffer(file) \notin hashes(i)
                   /\ addNewVersion(fileId, file, uploadedBy)) =>
                    last' = Response("append", 500, NoId, 0, FALSE)
             /\ \A fileId \in FileIds :
                  ((\E i \in 1..Len(docs) : docs[i].fileId = fileId /\ docs[i].isActive)
                     /\ downloadFile(fileId, <<>>)) =>
                    last' = Failure("download", 500, "Failed to download file")]_vars

W_C36_AppendFailedAfterFailedInit ==
  /\ initDone /\ ~isConnected
  /\ last = Response("append", 500, NoId, 0, FALSE)
  /\ Len(docs) = 1 /\ docs[1].isActive /\ Len(docs[1].versions) = 2
  /\ pending = EmptyBag

====
